---- MODULE Spec2Model ----
(***************************************************************************)
(* Restaurant self-ordering application (src/app.py): the catalog, the     *)
(* session cart, the order ledger, the admin gate and the page handlers    *)
(* that main() dispatches to, one action per request cycle.                *)
(*                                                                         *)
(* Prices are whole numbers (the floats of the source are exact on them).  *)
(* Time is a tick counter: TicksPerSecond ticks make a second and          *)
(* SecondsPerDay seconds make a day of the configured timezone.            *)
(***************************************************************************)
EXTENDS Integers, Sequences, FiniteSets, TLC

\* ---------------------------------------------------------------- bounds
MaxMenuId == 2        \* menu ids an add or import may allocate
MaxOrderId == 2       \* order ids a submission may allocate
SeedRows == 2         \* rows of DEFAULT_MENU that init_db seeds
TicksPerSecond == 2   \* clock resolution below one second
SecondsPerDay == 2    \* seconds of one day
MaxDay == 1           \* last day the clock reaches
MaxImportId == 5       \* menu ids an upload may allocate
MaxCycles == 6        \* request cycles and clock advances explored

TicksPerDay == SecondsPerDay * TicksPerSecond
MaxTime == (MaxDay + 1) * TicksPerDay - 1
Days == 0..MaxDay

\* ------------------------------------------------------------- configuration
ADMIN_PASSWORD == "changeme"
Passwords == {ADMIN_PASSWORD, "wrong"}

Statuses == {"NEW", "CONFIRMED", "PREPARING", "SERVED", "CANCELLED"}

Pages == {"page_order", "page_orders_admin", "page_menu_admin", "page_qr"}
AdminPages == Pages \ {"page_order"}

NULL == 0             \* a NULL foreign key; generated ids start at 1

\* ---------------------------------------------------------------- helpers
SetMax(S) == CHOOSE x \in S : \A y \in S : y <= x

\* Integer primary key: the store hands out max(id) + 1, and 1 on an empty table.
NextId(table) == IF DOMAIN table = {} THEN 1 ELSE SetMax(DOMAIN table) + 1

\* The table without the rows whose ids are in gone.
Without(table, gone) == [i \in DOMAIN table \ gone |-> table[i]]

\* ------------------------------------------------------------- data model
MenuItem(name, price, category, description, image_url, is_available) ==
    [name |-> name, price |-> price, category |-> category,
     description |-> description, image_url |-> image_url,
     is_available |-> is_available]

Order(status, total_price, created_at, updated_at) ==
    [status |-> status, total_price |-> total_price,
     created_at |-> created_at, updated_at |-> updated_at]

OrderItem(order_id, item_id, item_name, unit_price, quantity) ==
    [order_id |-> order_id, item_id |-> item_id, item_name |-> item_name,
     unit_price |-> unit_price, quantity |-> quantity]

DEFAULT_MENU ==
    << [name |-> "beef_rice", price |-> 28, category |-> "staple", description |-> "beef and rice"],
       [name |-> "chicken_set", price |-> 26, category |-> "staple", description |-> "fried chicken"],
       [name |-> "lime_soda", price |-> 10, category |-> "drink", description |-> "refreshing"],
       [name |-> "americano", price |-> 12, category |-> "drink", description |-> "hot or iced"],
       [name |-> "fries", price |-> 9, category |-> "snack", description |-> "golden fries"] >>

VARIABLES
    menu,           \* table menu_items: id -> MenuItem
    orders,         \* table orders: id -> Order
    order_items,    \* table order_items: id -> OrderItem
    session_state,  \* st.session_state: key -> value ("cart", "_admin_ok")
    now,            \* datetime.now(TZ), in ticks
    ran,            \* the page handler the last request cycle ran, or "none"
    notice,         \* what the last request cycle reported to the user
    gate,           \* the admin gate's inputs in the last request cycle
    upload,         \* the file the upload section read in the last request cycle
    db_state,       \* the storage session of the last cycle's handler, as the handler left it
    cycles          \* steps taken so far

vars == <<menu, orders, order_items, session_state, now, ran, notice, gate, upload,
          db_state, cycles>>

\* ------------------------------------------------------- the storage session
\* A handler's db = SessionLocal() holds no connection until it is used; its
\* first query begins a transaction on a connection checked out of the pool;
\* commit ends the transaction and hands the connection back; close does the
\* same whatever the session was doing.  A cycle that runs no handler with a
\* session leaves "none".
SessionLocal == "idle"
db_query(db) == "in_transaction"
db_commit(db) == "idle"
db_close(db) == "closed"
NoSession == "none"

\* ------------------------------------------------------- session and notices
SessionGet(ss, key, default) == IF key \in DOMAIN ss THEN ss[key] ELSE default
SessionSet(ss, key, value) == (key :> value) @@ ss

Notice(kind, order_id) == [kind |-> kind, order_id |-> order_id]
NoNotice == Notice("none", NULL)

\* The gate's widgets untouched: the button not clicked, the password box empty.
NoGate == [ok |-> FALSE, pw |-> ""]

\* An uploaded file: the header row and the rows' cells, column by column.
CsvFile(columns, rows) == [columns |-> columns, rows |-> rows]
NoFile == CsvFile(<<>>, <<>>)

\* ------------------------------------------------------------------ init_db
RECURSIVE SeedTable(_, _)
SeedTable(rows, n) ==
    IF n = 0 THEN <<>>
    ELSE LET table == SeedTable(rows, n - 1)
             row == rows[n]
         IN  (NextId(table) :> MenuItem(row.name, row.price, row.category,
                                        row.description, "", TRUE)) @@ table

init_db(m) ==
    IF Cardinality(DOMAIN m) = 0 THEN SeedTable(DEFAULT_MENU, SeedRows) ELSE m

\* st.rerun(): the script runs again from main(), whose init_db reseeds an
\* empty catalog; the rerun clicks no button.
Rerun(m) == init_db(m)

\* --------------------------------------------------------------------- cart
\* The cart is a dict {menu_id: qty}; a sequence of <<menu_id, qty>> pairs keeps
\* its insertion order, which is the order the submission loop visits.
ensure_cart(ss) == IF "cart" \in DOMAIN ss THEN ss ELSE SessionSet(ss, "cart", <<>>)

reset_cart(ss) == SessionSet(ss, "cart", <<>>)

CartKeys(cart) == {cart[i][1] : i \in DOMAIN cart}

\* (mutant of CartPut: the quantity is added to the one the cart already holds)
CartPutAdditive(cart, mid, qty) ==
    IF mid \in CartKeys(cart)
    THEN [i \in DOMAIN cart |-> IF cart[i][1] = mid THEN <<mid, cart[i][2] + qty>> ELSE cart[i]]
    ELSE Append(cart, <<mid, qty>>)

\* cart[mid] = qty
CartPut(cart, mid, qty) ==
    IF mid \in CartKeys(cart)
    THEN [i \in DOMAIN cart |-> IF cart[i][1] = mid THEN <<mid, qty>> ELSE cart[i]]
    ELSE Append(cart, <<mid, qty>>)

\* (mutant of CartIsEmpty: the check is missing)
CartIsEmptyUnchecked(cart) == FALSE

\* not st.session_state.cart
CartIsEmpty(cart) == cart = <<>>

RECURSIVE cart_total(_, _)
cart_total(cart, m) ==
    IF cart = <<>> THEN 0
    ELSE LET mid == Head(cart)[1]
             qty == Head(cart)[2]
             rest == cart_total(Tail(cart), m)
         IN  IF mid \in DOMAIN m /\ m[mid].is_available
             THEN m[mid].price * qty + rest
             ELSE rest

\* --------------------------------------------------- the submission transaction
\* (mutant of SubmitLines: items taken off sale are skipped, as cart_total does)
RECURSIVE SubmitLinesAvailableOnly(_, _, _, _)
SubmitLinesAvailableOnly(cart, m, oid, upto) ==
    IF upto = 0 THEN <<>>
    ELSE LET before == SubmitLinesAvailableOnly(cart, m, oid, upto - 1)
             mid == cart[upto][1]
             qty == cart[upto][2]
         IN  IF mid \in DOMAIN m /\ m[mid].is_available
             THEN Append(before, OrderItem(oid, mid, m[mid].name, m[mid].price, qty))
             ELSE before

\* The order lines the loop adds for the first upto cart entries: one for each
\* entry whose menu item the query finds, none for the others.
RECURSIVE SubmitLines(_, _, _, _)
SubmitLines(cart, m, oid, upto) ==
    IF upto = 0 THEN <<>>
    ELSE LET before == SubmitLines(cart, m, oid, upto - 1)
             mid == cart[upto][1]
             qty == cart[upto][2]
         IN  IF mid \in DOMAIN m
             THEN Append(before, OrderItem(oid, mid, m[mid].name, m[mid].price, qty))
             ELSE before

\* (mutant of SubmitTotal: the quantity is left out of the sum)
RECURSIVE SubmitTotalNoQuantity(_)
SubmitTotalNoQuantity(lines) ==
    IF lines = <<>> THEN 0
    ELSE SubmitTotalNoQuantity(SubSeq(lines, 1, Len(lines) - 1)) + lines[Len(lines)].unit_price

\* total += item.price * qty, over the lines added
RECURSIVE SubmitTotal(_)
SubmitTotal(lines) ==
    IF lines = <<>> THEN 0
    ELSE SubmitTotal(SubSeq(lines, 1, Len(lines) - 1))
         + lines[Len(lines)].unit_price * lines[Len(lines)].quantity

\* db.add of each line in turn: ids follow the table's largest id.
RECURSIVE AddLines(_, _)
AddLines(table, lines) ==
    IF lines = <<>> THEN table
    ELSE AddLines((NextId(table) :> Head(lines)) @@ table, Tail(lines))

\* The session's view after db.add(order), db.flush() and upto turns of the loop.
SubmitPending(db, cart, m, t, upto) ==
    LET oid == NextId(db.orders)
    IN  [orders |-> (oid :> Order("NEW", 0, t, t)) @@ db.orders,
         order_items |-> AddLines(db.order_items, SubmitLines(cart, m, oid, upto))]

\* ... and after order.total_price = total, order.updated_at = now.
SubmitFinal(db, cart, m, t) ==
    LET oid == NextId(db.orders)
        tx == SubmitPending(db, cart, m, t, Len(cart))
        total == SubmitTotal(SubmitLines(cart, m, oid, Len(cart)))
    IN  [tx EXCEPT !.orders[oid].total_price = total, !.orders[oid].updated_at = t]

\* (mutant of Rollback: what was flushed stays in the store)
RollbackKeepsFlushed(db, tx) == tx

\* A session that is dropped without commit: sessionmaker's sessions are
\* transactional (no autocommit), so the store keeps what it had.
Rollback(db, tx) == db

\* Where the submission may raise: nowhere, in db.flush(), in the k-th
\* db.query(MenuItem).get(mid), or in db.commit().
FailPoints == {"none", "flush", "query", "commit"}

Init ==
    /\ menu = init_db(<<>>)
    /\ orders = <<>>
    /\ order_items = <<>>
    /\ session_state = ensure_cart(<<>>)
    /\ now = 0
    /\ ran = "page_order"
    /\ notice = NoNotice
    /\ gate = NoGate
    /\ upload = NoFile
    /\ db_state = db_close(db_query(SessionLocal))
    /\ cycles = 0

Cart == SessionGet(session_state, "cart", <<>>)
Db == [orders |-> orders, order_items |-> order_items]

\* ------------------------------------------------------ page_order (customer)
\* The page is rendered and no button is clicked.
OrderView ==
    /\ menu' = init_db(menu)
    /\ session_state' = ensure_cart(session_state)
    /\ ran' = "page_order"
    /\ notice' = NoNotice
    /\ gate' = NoGate
    /\ upload' = NoFile
    /\ db_state' = db_close(db_query(SessionLocal))
    /\ UNCHANGED <<orders, order_items, now>>

\* "add to cart" of a listed (available) item with the quantity typed.
OrderAddToCart(mid, qty) ==
    LET m == init_db(menu)
        ss == ensure_cart(session_state)
    IN  /\ mid \in DOMAIN m
        /\ m[mid].is_available
        /\ menu' = m
        /\ IF qty <= 0
           THEN /\ session_state' = ss
                /\ notice' = Notice("warning_quantity", NULL)
           ELSE /\ session_state' = SessionSet(ss, "cart", CartPut(ss["cart"], mid, qty))
                /\ notice' = Notice("added", NULL)
        /\ ran' = "page_order"
        /\ gate' = NoGate
        /\ upload' = NoFile
        /\ db_state' = db_close(db_query(SessionLocal))
        /\ UNCHANGED <<orders, order_items, now>>

\* "clear cart": shown only when some cart entry still resolves to a menu item.
\* st.rerun() leaves the handler at once, before its db.close().
OrderClearCart ==
    LET m == init_db(menu)
        ss == ensure_cart(session_state)
    IN  /\ \E i \in DOMAIN ss["cart"] : ss["cart"][i][1] \in DOMAIN m
        /\ session_state' = reset_cart(ss)
        /\ menu' = Rerun(m)
        /\ ran' = "page_order"
        /\ notice' = NoNotice
        /\ gate' = NoGate
        /\ upload' = NoFile
        /\ db_state' = db_query(SessionLocal)
        /\ UNCHANGED <<orders, order_items, now>>

\* The "place_order" form is submitted; fail says where the storage raises
\* (at the k-th query when fail = "query").
OrderSubmit(fail, k) ==
    LET m == init_db(menu)
        ss == ensure_cart(session_state)
        cart == ss["cart"]
        oid == NextId(orders)
    IN  /\ menu' = m
        /\ ran' = "page_order"
        /\ gate' = NoGate
        /\ upload' = NoFile
        /\ UNCHANGED now
        /\ IF CartIsEmpty(cart)
           THEN /\ fail = "none"
                /\ notice' = Notice("warning_empty_cart", NULL)
                /\ session_state' = ss
                /\ db_state' = db_close(db_query(SessionLocal))
                /\ UNCHANGED <<orders, order_items>>
           ELSE /\ oid <= MaxOrderId
                /\ fail = "query" => k \in 1..Len(cart)
                /\ fail # "query" => k = 1
                /\ IF fail = "none"
                   THEN LET tx == SubmitFinal(Db, cart, m, now)
                        IN  /\ orders' = tx.orders
                            /\ order_items' = tx.order_items
                            /\ session_state' = reset_cart(ss)
                            /\ notice' = Notice("order_success", oid)
                            /\ db_state' = db_close(db_commit(db_query(SessionLocal)))
                   ELSE LET tx == CASE fail = "flush" -> Db
                                    [] fail = "query" -> SubmitPending(Db, cart, m, now, k - 1)
                                    [] fail = "commit" -> SubmitFinal(Db, cart, m, now)
                            kept == Rollback(Db, tx)
                        IN  /\ orders' = kept.orders
                            /\ order_items' = kept.order_items
                            /\ session_state' = ss
                            /\ notice' = Notice("exception", NULL)
                            /\ db_state' = db_query(SessionLocal)

\* ---------------------------------------------------------------- admin gate
\* (mutant of require_admin: the flag is recomputed in every cycle)
require_admin_EveryCycle(ss, ok, pw) ==
    SessionSet(ss, "_admin_ok", ok /\ pw = ADMIN_PASSWORD)

\* (mutant of require_admin: any submitted secret is accepted)
require_admin_AnySecret(ss, ok, pw) ==
    IF ok THEN SessionSet(ss, "_admin_ok", TRUE) ELSE ss

\* require_admin: the session after the gate's widgets are read.  The value it
\* returns is AdminOk of that session.
require_admin(ss, ok, pw) ==
    IF ok THEN SessionSet(ss, "_admin_ok", pw = ADMIN_PASSWORD) ELSE ss

AdminOk(ss) == SessionGet(ss, "_admin_ok", FALSE)

\* ------------------------------------------------------------- order listing
\* datetime(y, m, d, 0, 0) and datetime(y, m, d, 23, 59, 59) of day d
DayStart(d) == d * TicksPerDay
DayLastSecond(d) == d * TicksPerDay + (SecondsPerDay - 1) * TicksPerSecond

\* The ids the filtered query selects (no keyword typed).
FilterOrders(tbl, d_from, d_to, status_sel) ==
    {o \in DOMAIN tbl :
        /\ tbl[o].created_at >= DayStart(d_from)
        /\ tbl[o].created_at <= DayLastSecond(d_to)
        /\ status_sel # {} => tbl[o].status \in status_sel}

\* order_by(created_at.desc()): the store may return equal timestamps in any order.
IsDescending(tbl, listing) ==
    \A i, j \in DOMAIN listing :
        i < j => tbl[listing[i]].created_at >= tbl[listing[j]].created_at

Permutations_(S) ==
    {f \in [1..Cardinality(S) -> S] : \A x \in S : \E i \in DOMAIN f : f[i] = x}

ListOrders(tbl, d_from, d_to, status_sel) ==
    {l \in Permutations_(FilterOrders(tbl, d_from, d_to, status_sel)) :
        IsDescending(tbl, l)}

\* ----------------------------------------------------- relationships on delete
\* (mutant of CascadeDelete: the relationship has no cascade)
CascadeDeleteNone(items, oid) == items

\* Order.items has cascade="all, delete-orphan": the lines go with the header.
CascadeDelete(items, oid) ==
    Without(items, {i \in DOMAIN items : items[i].order_id = oid})

\* (mutant of NullifyItem: the lines of a deleted item are deleted with it)
NullifyItemDeletesLines(items, mid) ==
    Without(items, {i \in DOMAIN items : items[i].item_id = mid})

\* MenuItem.order_items has no cascade: the lines stay, item_id becomes NULL.
NullifyItem(items, mid) ==
    [i \in DOMAIN items |->
        IF items[i].item_id = mid THEN [items[i] EXCEPT !.item_id = NULL] ELSE items[i]]

\* ------------------------------------------------------------------ CSV import
\* str.lower on the header names the files use
str_lower(c) ==
    CASE c = "Name" -> "name"
      [] c = "PRICE" -> "price"
      [] c = "Category" -> "category"
      [] OTHER -> c

\* str.strip on the cells the files use
str_strip(c) == IF c = " Tea " THEN "Tea" ELSE c

\* float(cell): the number, or -1 where float() raises ValueError
IsFloat(c) == c \in {"0.0", "5", "10"}
float_(c) == CASE c = "0.0" -> 0 [] c = "5" -> 5 [] c = "10" -> 10 [] OTHER -> -1

LowerColumns(up) == [i \in DOMAIN up.columns |-> str_lower(up.columns[i])]

\* r.get(key, default) on a row of the frame whose columns were lowered
RowGet(up, row, key, default) ==
    LET cols == LowerColumns(up)
    IN  IF \E i \in DOMAIN cols : cols[i] = key
        THEN row[CHOOSE i \in DOMAIN cols : cols[i] = key]
        ELSE default

\* (mutant of ImportRows: a row whose name the catalog already has updates
\* that entry instead of adding one)
RECURSIVE ImportRowsUpsert(_, _, _)
ImportRowsUpsert(m, up, n) ==
    IF n = 0 THEN [ok |-> TRUE, menu |-> m]
    ELSE LET before == ImportRowsUpsert(m, up, n - 1)
             row == up.rows[n]
             price == RowGet(up, row, "price", "0.0")
             name == str_strip(RowGet(up, row, "name", ""))
             item == MenuItem(name, float_(price),
                              RowGet(up, row, "category", "staple"),
                              RowGet(up, row, "description", ""),
                              RowGet(up, row, "image_url", ""),
                              RowGet(up, row, "is_available", TRUE))
             same == {i \in DOMAIN before.menu : before.menu[i].name = name}
         IN  IF ~before.ok \/ ~IsFloat(price)
             THEN [ok |-> FALSE, menu |-> before.menu]
             ELSE IF same # {}
             THEN [ok |-> TRUE, menu |-> [before.menu EXCEPT ![SetMax(same)] = item]]
             ELSE [ok |-> TRUE, menu |-> (NextId(before.menu) :> item) @@ before.menu]

\* The loop over dfu.iterrows(): the catalog with the rows added, ok = FALSE
\* as soon as a row raises.
RECURSIVE ImportRows(_, _, _)
ImportRows(m, up, n) ==
    IF n = 0 THEN [ok |-> TRUE, menu |-> m]
    ELSE LET before == ImportRows(m, up, n - 1)
             row == up.rows[n]
             price == RowGet(up, row, "price", "0.0")
         IN  IF ~before.ok \/ ~IsFloat(price)
             THEN [ok |-> FALSE, menu |-> before.menu]
             ELSE [ok |-> TRUE,
                   menu |-> (NextId(before.menu) :>
                               MenuItem(str_strip(RowGet(up, row, "name", "")),
                                        float_(price),
                                        RowGet(up, row, "category", "staple"),
                                        RowGet(up, row, "description", ""),
                                        RowGet(up, row, "image_url", ""),
                                        RowGet(up, row, "is_available", TRUE)))
                            @@ before.menu]

HasRequiredColumns(up) ==
    {"name", "price", "category"} \subseteq {str_lower(up.columns[i]) : i \in DOMAIN up.columns}

\* The upload section of page_menu_admin: the catalog after it and what it reports.
\* The adds of a failed import are never committed; db.close() drops them.
ImportUpload(m, up) ==
    LET db == db_query(SessionLocal)
    IN  IF up = NoFile THEN [menu |-> m, notice |-> NoNotice, db |-> db_close(db)]
        ELSE IF ~HasRequiredColumns(up)
        THEN [menu |-> m, notice |-> Notice("error_columns", NULL), db |-> db_close(db)]
        ELSE LET done == ImportRows(m, up, Len(up.rows))
             IN  IF done.ok
                 THEN [menu |-> Rerun(done.menu), notice |-> Notice("imported", NULL),
                       db |-> db_commit(db)]
                 ELSE [menu |-> m, notice |-> Notice("error_import", NULL),
                       db |-> db_close(db)]

\* The ids an upload would allocate stay within the bound.
ImportFits(m, up, max_id) ==
    HasRequiredColumns(up) => NextId(m) + Len(up.rows) - 1 <= max_id

\* ------------------------------------------------------------- main(): the gate
\* The gate button is clicked on an admin page, with pw in the password box.
\* No other button is clicked in that cycle; a file left in the uploader of
\* the menu page is read again.
GateSubmit(page, pw, up, max_id) ==
    LET m == init_db(menu)
        ss == require_admin(session_state, TRUE, pw)
        done == ImportUpload(m, up)
    IN  /\ page \in AdminPages
        /\ session_state' = ss
        /\ gate' = [ok |-> TRUE, pw |-> pw]
        /\ UNCHANGED <<orders, order_items, now>>
        /\ IF ~AdminOk(ss)
           THEN /\ up = NoFile
                /\ ran' = "none"
                /\ notice' = Notice("warning_admin", NULL)
                /\ menu' = m
                /\ upload' = NoFile
                /\ db_state' = NoSession
           ELSE /\ ran' = page
                /\ IF page = "page_menu_admin"
                   THEN /\ ImportFits(m, up, max_id)
                        /\ menu' = done.menu
                        /\ notice' = done.notice
                        /\ upload' = up
                        /\ db_state' = done.db
                   ELSE /\ up = NoFile
                        /\ menu' = m
                        /\ notice' = NoNotice
                        /\ upload' = NoFile
                        /\ db_state' = IF page = "page_qr" THEN NoSession
                                       ELSE db_close(db_query(SessionLocal))

\* An admin page is requested, the gate button not clicked, and the session
\* is not admitted: main() warns and returns.
AdminDenied(page) ==
    LET ss == require_admin(session_state, FALSE, "")
    IN  /\ page \in AdminPages
        /\ ~AdminOk(ss)
        /\ session_state' = ss
        /\ menu' = init_db(menu)
        /\ ran' = "none"
        /\ notice' = Notice("warning_admin", NULL)
        /\ gate' = NoGate
        /\ upload' = NoFile
        /\ db_state' = NoSession
        /\ UNCHANGED <<orders, order_items, now>>

\* What every admitted cycle of an admin page shares: the gate button is not
\* clicked, require_admin returns true, the handler of page runs.
AdminCycle(page) ==
    LET ss == require_admin(session_state, FALSE, "")
    IN  /\ AdminOk(ss)
        /\ session_state' = ss
        /\ ran' = page
        /\ gate' = NoGate
        /\ UNCHANGED now

\* ------------------------------------------------- page_orders_admin (back office)
\* The listing is rendered and no button is clicked.
OrdersView ==
    /\ AdminCycle("page_orders_admin")
    /\ menu' = init_db(menu)
    /\ notice' = NoNotice
    /\ upload' = NoFile
    /\ db_state' = db_close(db_query(SessionLocal))
    /\ UNCHANGED <<orders, order_items>>

\* The place of a status in the order the page lists them.
StatusRank(st) ==
    CASE st = "NEW" -> 1
      [] st = "CONFIRMED" -> 2
      [] st = "PREPARING" -> 3
      [] st = "SERVED" -> 4
      [] st = "CANCELLED" -> 5

\* (mutant of SaveStatus: a status may only move forward)
SaveStatusForwardOnly(tbl, oid, new_status, t) ==
    IF StatusRank(new_status) >= StatusRank(tbl[oid].status)
    THEN [tbl EXCEPT ![oid].status = new_status, ![oid].updated_at = t]
    ELSE tbl

\* order.status = new_status; order.updated_at = datetime.now(TZ)
SaveStatus(tbl, oid, new_status, t) ==
    [tbl EXCEPT ![oid].status = new_status, ![oid].updated_at = t]

\* "save status" on the order selected from the filtered listing.
OrdersSaveStatus(d_from, d_to, status_sel, oid, new_status) ==
    /\ AdminCycle("page_orders_admin")
    /\ oid \in FilterOrders(orders, d_from, d_to, status_sel)
    /\ orders' = SaveStatus(orders, oid, new_status, now)
    /\ menu' = Rerun(init_db(menu))
    /\ notice' = Notice("status_saved", oid)
    /\ upload' = NoFile
    /\ db_state' = db_commit(db_query(SessionLocal))
    /\ UNCHANGED order_items

\* "delete this order" on the order selected from the filtered listing.
OrdersDelete(d_from, d_to, status_sel, oid) ==
    /\ AdminCycle("page_orders_admin")
    /\ oid \in FilterOrders(orders, d_from, d_to, status_sel)
    /\ orders' = Without(orders, {oid})
    /\ order_items' = CascadeDelete(order_items, oid)
    /\ menu' = Rerun(init_db(menu))
    /\ notice' = Notice("order_deleted", oid)
    /\ upload' = NoFile
    /\ db_state' = db_commit(db_query(SessionLocal))

\* --------------------------------------------------- page_menu_admin (back office)
\* The "add_item" form is submitted.  An empty name is refused and the page
\* goes on to its upload section; otherwise the item is added and the script
\* reruns before that section.
MenuAdd(name, category, price, description, image_url, avail, up, max_id) ==
    LET m == init_db(menu)
        done == ImportUpload(m, up)
    IN  /\ AdminCycle("page_menu_admin")
        /\ UNCHANGED <<orders, order_items>>
        /\ IF name = ""
           THEN /\ ImportFits(m, up, max_id)
                /\ menu' = done.menu
                /\ notice' = IF up = NoFile THEN Notice("warning_name", NULL) ELSE done.notice
                /\ upload' = up
                /\ db_state' = done.db
           ELSE /\ up = NoFile
                /\ NextId(m) <= max_id
                /\ menu' = Rerun((NextId(m) :>
                                   MenuItem(name, price, IF category = "" THEN "staple" ELSE category,
                                            description, image_url, avail)) @@ m)
                /\ notice' = Notice("item_added", NULL)
                /\ upload' = NoFile
                /\ db_state' = db_commit(db_query(SessionLocal))

\* "save changes" of the "edit_item" form on the selected item.
MenuSave(selected, e_name, e_category, e_price, e_desc, e_img, e_avail) ==
    LET m == init_db(menu)
    IN  /\ AdminCycle("page_menu_admin")
        /\ selected \in DOMAIN m
        /\ menu' = Rerun([m EXCEPT ![selected] =
                             MenuItem(e_name, e_price, e_category, e_desc, e_img, e_avail)])
        /\ notice' = Notice("item_saved", NULL)
        /\ upload' = NoFile
        /\ db_state' = db_commit(db_query(SessionLocal))
        /\ UNCHANGED <<orders, order_items>>

\* "delete this item" of the "edit_item" form on the selected item.
MenuDelete(selected) ==
    LET m == init_db(menu)
    IN  /\ AdminCycle("page_menu_admin")
        /\ selected \in DOMAIN m
        /\ menu' = Rerun(Without(m, {selected}))
        /\ order_items' = NullifyItem(order_items, selected)
        /\ notice' = Notice("item_deleted", NULL)
        /\ upload' = NoFile
        /\ db_state' = db_commit(db_query(SessionLocal))
        /\ UNCHANGED orders

\* The page is rendered with no form submitted: the upload section imports
\* the file in the uploader, if there is one.
MenuImport(up, max_id) ==
    LET m == init_db(menu)
        done == ImportUpload(m, up)
    IN  /\ AdminCycle("page_menu_admin")
        /\ ImportFits(m, up, max_id)
        /\ menu' = done.menu
        /\ notice' = done.notice
        /\ upload' = up
        /\ db_state' = done.db
        /\ UNCHANGED <<orders, order_items>>

\* ------------------------------------------------------------ page_qr (back office)
PageQr ==
    /\ AdminCycle("page_qr")
    /\ menu' = init_db(menu)
    /\ notice' = NoNotice
    /\ upload' = NoFile
    /\ db_state' = NoSession
    /\ UNCHANGED <<orders, order_items>>

\* -------------------------------------------------------------------- the clock
Tick(t) ==
    /\ now < t
    /\ now' = t
    /\ UNCHANGED <<menu, orders, order_items, session_state, ran, notice, gate, upload,
                   db_state>>

\* ----------------------------------------------------------------- input sets
Names == {"A"}
Prices == {5, 10}
Quantities == {0, 1, 2}
\* st.number_input(min_value=0, max_value=50, step=1): the widget hands over
\* whole numbers of its range only; both ends and their neighbours are tried.
QTY_MIN == 0
QTY_MAX == 50
number_input(min_value, max_value) == min_value..max_value
QtyInputs == {q \in number_input(QTY_MIN, QTY_MAX) : q <= QTY_MIN + 1 \/ q >= QTY_MAX - 1}
StatusFilters == {Statuses, {"NEW"}}

FileTea == CsvFile(<<"name", "price", "category">>, << <<"Tea", "5", "Drink">> >>)
FileMixedCase ==
    CsvFile(<<"Name", "PRICE", "Category">>, << <<" Tea ", "5", "Drink">>, <<"A", "10", "Drink">> >>)
FileNoCategory == CsvFile(<<"name", "price">>, << <<"Tea", "5">> >>)
FileBadRow ==
    CsvFile(<<"name", "price", "category">>, << <<"Tea", "5", "Drink">>, <<"A", "abc", "Drink">> >>)
FileOptional ==
    CsvFile(<<"name", "price", "category", "description", "image_url", "is_available">>,
            << <<"A", "10", "Drink", "iced", "a.png", FALSE>> >>)
Files == {FileTea, FileMixedCase, FileNoCategory, FileBadRow, FileOptional}

\* ------------------------------------------------------------- specifications
OrderSubmitStep == \E fail \in FailPoints : \E k \in 1..MaxMenuId : OrderSubmit(fail, k)
OrderAddStep == \E mid \in DOMAIN menu : \E qty \in Quantities : OrderAddToCart(mid, qty)
OrderAddRangeStep == \E mid \in DOMAIN menu : \E qty \in QtyInputs : OrderAddToCart(mid, qty)
GateStep == \E page \in AdminPages : \E pw \in Passwords : GateSubmit(page, pw, NoFile, MaxMenuId)
DeniedStep == \E page \in AdminPages : AdminDenied(page)
SaveStatusStep ==
    \E d_from, d_to \in Days : \E sel \in StatusFilters : \E oid \in DOMAIN orders :
        \E st \in Statuses : OrdersSaveStatus(d_from, d_to, sel, oid, st)
OrdersDeleteStep ==
    \E d_from, d_to \in Days : \E sel \in StatusFilters : \E oid \in DOMAIN orders :
        OrdersDelete(d_from, d_to, sel, oid)
MenuAddStep ==
    \E name \in Names \cup {""} : \E price \in Prices : \E avail \in BOOLEAN :
        MenuAdd(name, "", price, "", "", avail, NoFile, MaxMenuId)
MenuSaveStep ==
    \E sel \in DOMAIN menu : \E name \in Names : \E price \in Prices : \E avail \in BOOLEAN :
        MenuSave(sel, name, menu[sel].category, price, menu[sel].description,
                 menu[sel].image_url, avail)
MenuDeleteStep == \E sel \in DOMAIN menu : MenuDelete(sel)
MenuImportStep == \E up \in Files : MenuImport(up, MaxImportId)
GateUploadStep == \E pw \in Passwords : \E up \in Files : GateSubmit("page_menu_admin", pw, up, MaxImportId)
MenuAddUploadStep ==
    \E name \in Names \cup {""} : \E up \in Files \cup {NoFile} :
        MenuAdd(name, "", 10, "", "", TRUE, up, MaxImportId)

TickStep == \E t \in 0..MaxTime : Tick(t)
TickNextStep == now < MaxTime /\ Tick(now + 1)

\* One step of the exploration: A, counted.
Step(A) ==
    /\ cycles < MaxCycles
    /\ cycles' = cycles + 1
    /\ A

\* Every request cycle of the session, the clock standing still.
Next ==
    \/ Step(OrderView)
    \/ Step(OrderAddStep)
    \/ Step(OrderClearCart)
    \/ Step(OrderSubmitStep)
    \/ Step(GateStep)
    \/ Step(DeniedStep)
    \/ Step(OrdersView)
    \/ Step(SaveStatusStep)
    \/ Step(OrdersDeleteStep)
    \/ Step(MenuAddStep)
    \/ Step(MenuSaveStep)
    \/ Step(MenuDeleteStep)
    \/ Step(PageQr)

Spec == Init /\ [][Next]_vars

\* The order ledger over time: submissions, status updates and deletions as
\* the clock advances.
NextClock ==
    \/ Step(TickStep)
    \/ Step(OrderAddStep)
    \/ Step(OrderSubmitStep)
    \/ Step(GateStep)
    \/ Step(SaveStatusStep)
    \/ Step(OrdersDeleteStep)

SpecClock == Init /\ [][NextClock]_vars

\* The customer's cart over the whole range of the quantity widget.
NextCart ==
    \/ Step(OrderView)
    \/ Step(OrderAddRangeStep)
    \/ Step(OrderClearCart)
    \/ Step(OrderSubmitStep)

SpecCart == Init /\ [][NextCart]_vars

\* The life of an order's status as the clock advances.
NextStatus ==
    \/ Step(TickNextStep)
    \/ Step(OrderAddStep)
    \/ Step(OrderSubmitStep)
    \/ Step(GateStep)
    \/ Step(SaveStatusStep)

SpecStatus == Init /\ [][NextStatus]_vars

\* The catalog under the back office: uploads, adds and deletions.
NextImport ==
    \/ Step(GateUploadStep)
    \/ Step(DeniedStep)
    \/ Step(MenuImportStep)
    \/ Step(MenuAddUploadStep)
    \/ Step(MenuDeleteStep)

SpecImport == Init /\ [][NextImport]_vars

\* ===================================================================== claims
RECURSIVE SumOver(_, _)
SumOver(f, S) ==
    IF S = {} THEN 0
    ELSE LET x == CHOOSE y \in S : TRUE IN f[x] + SumOver(f, S \ {x})

LineAmount(items) == [i \in DOMAIN items |-> items[i].unit_price * items[i].quantity]
LinesOf(items, oid) == {i \in DOMAIN items : items[i].order_id = oid}
CreatedLines == DOMAIN order_items' \ DOMAIN order_items
CreatedOrders == DOMAIN orders' \ DOMAIN orders
Resolving(cart, m) == {i \in DOMAIN cart : cart[i][1] \in DOMAIN m}

\* Every stored header's total is the sum of unit_price * quantity over its lines.
TotalsMatch ==
    \A o \in DOMAIN orders :
        orders[o].total_price = SumOver(LineAmount(order_items), LinesOf(order_items, o))

\* C1: a successful submission of a cart with at least one entry whose menu
\* item exists stores in the new header the sum of unit_price * quantity over
\* the order lines that submission creates, and leaves the cart empty.
C1_SubmitTotal ==
    [][(notice'.kind = "order_success" /\ Resolving(Cart, menu) # {}) =>
          /\ CreatedOrders = {notice'.order_id}
          /\ CreatedLines # {}
          /\ orders'[notice'.order_id].total_price
               = SumOver(LineAmount(order_items'), CreatedLines)
          /\ Cart' = <<>>]_vars

\* The scenario of C1: prices 10 and 5, quantities 2 and 1, total 25.
C1_Witness ==
    /\ notice.kind = "order_success"
    /\ Cart = <<>>
    /\ orders[notice.order_id].total_price = 25
    /\ \E a, b \in LinesOf(order_items, notice.order_id) :
          /\ order_items[a].unit_price = 10 /\ order_items[a].quantity = 2
          /\ order_items[b].unit_price = 5 /\ order_items[b].quantity = 1
    /\ Cardinality(LinesOf(order_items, notice.order_id)) = 2

\* C3: submitting with an empty cart creates no header and no line, warns,
\* and leaves the order store, the catalog and the cart as they were.
C3_EmptyCartRejected ==
    [][/\ Cart = <<>> => (CreatedOrders = {} /\ CreatedLines = {})
       /\ notice'.kind = "warning_empty_cart" =>
             /\ Cart = <<>>
             /\ Cart' = Cart
             /\ UNCHANGED <<orders, order_items, menu>>]_vars

C3_Witness == notice.kind = "warning_empty_cart" /\ Cart = <<>> /\ orders = <<>>

\* C5: a submission whose storage call raises leaves the store without the
\* new header and without any of its lines, surfaces the failure and keeps the
\* cart; a header only ever appears together with its lines and their total.
C5_SubmitAtomic ==
    /\ []TotalsMatch
    /\ [][/\ notice'.kind = "exception" =>
                /\ UNCHANGED <<orders, order_items>>
                /\ Cart' = Cart
          /\ CreatedOrders # {} => notice'.kind = "order_success"]_vars

C5_Witness == notice.kind = "exception" /\ Cart # <<>> /\ orders = <<>> /\ order_items = <<>>

\* C10: a successful submission (the cart was not empty) creates exactly one
\* header, with status NEW, and exactly one line for each cart entry whose menu
\* item exists, carrying that item's current name and price and the cart's
\* quantity; entries whose item is gone give no line and no error; nothing
\* else is created or changed.
C10_SubmitCreatesLines ==
    [][notice'.kind = "order_success" =>
          LET oid == notice'.order_id
              cart == Cart
          IN  /\ cart # <<>>
              /\ CreatedOrders = {oid}
              /\ orders'[oid].status = "NEW"
              /\ \A o \in DOMAIN orders : o \in DOMAIN orders' /\ orders'[o] = orders[o]
              /\ \A l \in DOMAIN order_items :
                    l \in DOMAIN order_items' /\ order_items'[l] = order_items[l]
              /\ Cardinality(CreatedLines) = Cardinality(Resolving(cart, menu))
              /\ \A i \in Resolving(cart, menu) :
                    \E l \in CreatedLines :
                        order_items'[l] = OrderItem(oid, cart[i][1], menu[cart[i][1]].name,
                                                    menu[cart[i][1]].price, cart[i][2])]_vars

\* A header with no line: every entry of the submitted cart had lost its item.
C10_Witness ==
    /\ notice.kind = "order_success"
    /\ notice.order_id \in DOMAIN orders
    /\ LinesOf(order_items, notice.order_id) = {}

\* C2: updating or deleting a menu entry changes no existing order: every
\* line stays, with its item_name, unit_price and quantity, every header keeps
\* what it stored, and so every total still equals the sum over its lines.
C2_CatalogFrame ==
    /\ []TotalsMatch
    /\ [][menu' # menu =>
             /\ orders' = orders
             /\ DOMAIN order_items' = DOMAIN order_items
             /\ \A l \in DOMAIN order_items :
                   /\ order_items'[l].order_id = order_items[l].order_id
                   /\ order_items'[l].item_name = order_items[l].item_name
                   /\ order_items'[l].unit_price = order_items[l].unit_price
                   /\ order_items'[l].quantity = order_items[l].quantity]_vars

\* An order with a line whose item was deleted since and a line whose item's
\* price was changed since.
C2_Witness ==
    \E a, b \in DOMAIN order_items :
        /\ order_items[a].order_id = order_items[b].order_id
        /\ order_items[a].item_id = NULL
        /\ order_items[b].item_id \in DOMAIN menu
        /\ menu[order_items[b].item_id].price # order_items[b].unit_price

NoOrphanLines == \A l \in DOMAIN order_items : order_items[l].order_id \in DOMAIN orders

\* C4: deleting a header removes exactly the lines it owns, so every stored
\* line refers to a stored header whatever the sequence of submissions, status
\* updates, catalog mutations and deletions; the other orders' lines stay.
C4_DeleteCascades ==
    /\ []NoOrphanLines
    /\ [][notice'.kind = "order_deleted" =>
             LET oid == notice'.order_id
             IN  /\ oid \in DOMAIN orders
                 /\ orders' = Without(orders, {oid})
                 /\ DOMAIN order_items' = DOMAIN order_items \ LinesOf(order_items, oid)
                 /\ \A l \in DOMAIN order_items' : order_items'[l] = order_items[l]]_vars

\* An order with its line was deleted and another order's line is still there.
C4_Witness ==
    /\ notice.kind = "order_deleted"
    /\ notice.order_id \notin DOMAIN orders
    /\ 1 \notin DOMAIN order_items
    /\ \E l \in DOMAIN order_items : order_items[l].order_id \in DOMAIN orders

WrongSecretSubmitted == gate.ok /\ gate.pw # ADMIN_PASSWORD

\* C6 as stated: once the admin flag is true it stays true in every later
\* cycle, whatever pages are requested and whatever the gate is given.
C6_FlagNeverCleared == [][AdminOk(session_state) => AdminOk(session_state')]_vars

\* C6 as amended: once the admin flag is true it stays true in every later
\* cycle, without the secret being entered again, until a gate submission
\* whose secret differs from the configured one, which sets it false.
C6_FlagKeptUntilWrongSecret ==
    [][AdminOk(session_state) => (AdminOk(session_state') <=> ~WrongSecretSubmitted')]_vars

\* An admin handler ran in a cycle in which the gate was not submitted.
C6_Witness == AdminOk(session_state) /\ gate = NoGate /\ ran \in AdminPages

\* C7: an admin handler runs only in a cycle whose admin flag is true; the
\* flag turns true only in a gate submission of the configured secret, a wrong
\* secret never leaves it true, and the ordering page runs whatever the flag.
C7_GateGuardsAdmin ==
    /\ [](ran \in AdminPages => AdminOk(session_state))
    /\ [](WrongSecretSubmitted => ~AdminOk(session_state))
    /\ [](ENABLED OrderView)
    /\ [][(~AdminOk(session_state) /\ AdminOk(session_state')) =>
             (gate'.ok /\ gate'.pw = ADMIN_PASSWORD)]_vars

\* The order management page ran in the cycle that submitted the configured
\* secret, in a session that ordered before.
C7_Witness ==
    /\ ran = "page_orders_admin"
    /\ gate = [ok |-> TRUE, pw |-> ADMIN_PASSWORD]
    /\ orders # <<>>

\* The columns of a file that match key without regard to case.
ColumnsNamed(up, key) == {i \in DOMAIN up.columns : str_lower(up.columns[i]) = key}
CellOf(up, r, key) == up.rows[r][CHOOSE i \in ColumnsNamed(up, key) : TRUE]
Importable(up) ==
    /\ \A key \in {"name", "price", "category"} : ColumnsNamed(up, key) # {}
    /\ \A r \in DOMAIN up.rows : IsFloat(CellOf(up, r, "price"))

DayOf(t) == t \div TicksPerDay

\* C9: the listing for the date range [D, D], all statuses selected and no
\* keyword, holds exactly the orders created on day D, up to the end of that
\* day, newest first.
C9_ListingCoversDay ==
    \A D \in Days :
        \A listing \in ListOrders(orders, D, D, Statuses) :
            /\ {listing[i] : i \in DOMAIN listing}
                 = {o \in DOMAIN orders : DayOf(orders[o].created_at) = D}
            /\ IsDescending(orders, listing)

\* The quantity the cart holds for a menu id, 0 when it holds none.
QtyIn(cart, mid) ==
    IF mid \in CartKeys(cart)
    THEN LET i == CHOOSE j \in DOMAIN cart : cart[j][1] = mid IN cart[i][2]
    ELSE 0

\* C11: an add with a quantity q of 1..50 leaves the cart holding exactly q for
\* that item, whatever it held before, and every other entry as it was; an add
\* with quantity 0 or less warns and leaves the cart as it was; so every
\* quantity a cart holds is a whole number of 1..50, one entry per item.
C11_AddReplaces ==
    /\ [](\A i \in DOMAIN Cart :
            /\ Cart[i][2] \in 1..50
            /\ \A j \in DOMAIN Cart : Cart[j][1] = Cart[i][1] => j = i)
    /\ [][\A mid \in DOMAIN menu : \A qty \in QtyInputs :
            OrderAddToCart(mid, qty) =>
                IF qty \in 1..50
                THEN /\ notice'.kind = "added"
                     /\ QtyIn(Cart', mid) = qty
                     /\ CartKeys(Cart') = CartKeys(Cart) \cup {mid}
                     /\ \A other \in CartKeys(Cart) \ {mid} :
                            QtyIn(Cart', other) = QtyIn(Cart, other)
                ELSE /\ notice'.kind = "warning_quantity"
                     /\ Cart' = Cart]_vars

\* After three adds the cart holds two entries, the first with the largest
\* quantity of the widget and the second with the smallest accepted one.
C11_Witness ==
    /\ notice.kind = "added"
    /\ Len(Cart) = 2
    /\ Cart[1][2] = 50
    /\ Cart[2][2] = 1
    /\ cycles = 3

\* Every field of an order header but its status and its updated timestamp.
HeaderKept(o) == [total_price |-> o.total_price, created_at |-> o.created_at]

\* The orders some filter of the page lists.
Listable ==
    UNION {FilterOrders(orders, d_from, d_to, sel) :
            <<d_from, d_to, sel>> \in Days \X Days \X StatusFilters}

\* C12: a status update may put any of the five statuses on an order listed by
\* the page, whatever its status is, and it changes that order's status and
\* updated timestamp only: the rest of its header with the total, every order
\* line and every other order stay as they were.
C12_StatusUpdateFrame ==
    /\ [](\A oid \in DOMAIN orders : orders[oid].status \in Statuses)
    /\ []((AdminOk(session_state) /\ cycles < MaxCycles) =>
            \A oid \in Listable : \A st \in Statuses :
                ENABLED (\E d_from, d_to \in Days : \E sel \in StatusFilters :
                            OrdersSaveStatus(d_from, d_to, sel, oid, st)))
    /\ [][\A oid \in DOMAIN orders : \A st \in Statuses :
            (/\ notice' = Notice("status_saved", oid)
             /\ \E d_from, d_to \in Days : \E sel \in StatusFilters :
                    OrdersSaveStatus(d_from, d_to, sel, oid, st)) =>
                    /\ DOMAIN orders' = DOMAIN orders
                    /\ orders'[oid].status = st
                    /\ orders'[oid].updated_at = now
                    /\ HeaderKept(orders'[oid]) = HeaderKept(orders[oid])
                    /\ \A other \in DOMAIN orders \ {oid} : orders'[other] = orders[other]
                    /\ order_items' = order_items]_vars

\* A status was saved after the clock advanced: the order is on CANCELLED
\* with a fresh updated timestamp, its total and its lines in place.
C12_Witness ==
    /\ notice = Notice("status_saved", 1)
    /\ orders[1].status = "CANCELLED"
    /\ orders[1].updated_at > orders[1].created_at
    /\ orders[1].total_price > 0
    /\ \E i \in DOMAIN order_items : order_items[i].order_id = 1

\* C13: once a page handler that acquired a storage session has exited, by
\* whatever path (to its end, through an error, through a rerun), that
\* session holds no connection any more.
C13_ConnectionReleased == db_state # "in_transaction"

====
